---- MODULE Spec2Model ----
(***************************************************************************)
(* Model of the social-graph and review handlers of src/src/index.ts over  *)
(* the tables of src/src/db/schema/other-schema.ts.                        *)
(*                                                                         *)
(* Every handler is a sequence of awaited datastore statements with no     *)
(* transaction around them (there is no db.transaction call in index.ts).  *)
(* Each statement is atomic in the datastore; the code between two awaits  *)
(* is local to the request.  A handler is therefore modelled as one action *)
(* per awaited statement, each action covering the statement and the       *)
(* local code that runs on its result up to the next await.  Requests are  *)
(* served by the processes of Procs and interleave freely.                 *)
(*                                                                         *)
(* Ids are uuids in the source; here they are small integers.  Path ids    *)
(* are taken to be well-formed uuids.  Statements fail only when a schema  *)
(* constraint rejects them.                                                *)
(***************************************************************************)
EXTENDS Integers, Sequences, FiniteSets, Bags, TLC

(* ---------------------------- bounds ----------------------------------- *)

\* number of requests served in one behaviour of the concurrent specification
MaxRequests == 4

\* the latest createdAt a review row may get (the clock is cut off there)
MaxStamp == 3

\* the request handlers that may be in flight at the same time
Procs == {"p1", "p2"}

\* user rows present in the user table (registration is external)
RegisteredUsers == {1, 2, 3}

\* ids that may appear as :id in a path; 4 matches no user row
PathIds == {1, 2, 3, 4}

\* the users whose requests race in the concurrent specification
RacingUsers == {1, 2}

\* rows of the race table (seeded)
RaceIds == {1, 2}

\* the race most runs review
FirstRace == {1}

(* ---------------------------- state ------------------------------------ *)

VARIABLES
  user,         \* user table: id -> [followerCount, followingCount]
  follows,      \* follows table: bag of rows [userId, followingId]
  raceReviews,  \* race-review table: set of rows
  reviewLikes,  \* review_likes table: bag of rows [userId, reviewId]
  pc,           \* per process: the statement it is about to execute
  req,          \* per process: the request being served, or served last
  resp,         \* per process: the status of the response once pc = "done"
  obs,          \* per process: what is recorded about its request
  hist,         \* serial runs: the request completed before the current one
  started       \* number of requests started so far (concurrent runs)

vars == <<user, follows, raceReviews, reviewLikes, pc, req, resp, obs, hist, started>>

\* auth.api.getSession returned null
NoSession == 0

\* no response yet
NoStatus == 0

\* the datastore as a value
DB == [user |-> user, follows |-> follows, raceReviews |-> raceReviews,
       reviewLikes |-> reviewLikes]

\* a request: the session it carries, its path parameter (target or
\* reviewId), its body (raceId, rating and the rating's JSON type, text) and
\* its query (page, limit).  text is "absent" when the body has no text
\* field and "" when it is the empty string.
NoReq == [op |-> "none", session |-> NoSession, target |-> 1, reviewId |-> 1,
          raceId |-> 1, rating |-> 0, ratingType |-> "number",
          text |-> "absent", page |-> 1, limit |-> 1]

NoObs == [pre |-> <<>>, n |-> 0, alone |-> TRUE, wrote |-> 0, uq |-> FALSE,
          out |-> <<>>]

InFlight(q) == pc[q] \notin {"idle", "done"}

(* --------------------- datastore: schema and statements ---------------- *)

Edge(u, t) == [userId |-> u, followingId |-> t]

\* number of rows of the follows table with userId = u and followingId = t
Rows(rows, u, t) == CopiesIn(Edge(u, t), rows)

\* uuid("id").primaryKey().defaultRandom(): an id no row of the table uses
FreshId(rows) ==
  CHOOSE n \in 1..(Cardinality(rows) + 1) :
    /\ \A r \in rows : r.id # n
    /\ \A m \in 1..(n - 1) : \E r \in rows : r.id = m

\* unique("user_following_unique").on(userId, followingId)
FollowsUniqueOff(rows, u, t) == TRUE
FollowsUnique(rows, u, t) == Rows(rows, u, t) = 0

\* check("no_self_follow", userId != followingId)
NoSelfFollow(u, t) == u # t

\* references(() => user.id) on both columns of follows
FollowsFK(usr, u, t) == u \in DOMAIN usr /\ t \in DOMAIN usr

\* unique("user_race_review_number").on(userId, raceId, reviewNumber)
ReviewUniqueOff(rows, u, r, k) == TRUE
ReviewUnique(rows, u, r, k) ==
  ~ \E x \in rows : x.userId = u /\ x.raceId = r /\ x.reviewNumber = k

\* check("review_number_check", reviewNumber between 1 and 5)
ReviewNumberCheck(k) == k >= 1 /\ k <= 5

\* if (currentUserId === userIdToFollow)
IsSelfNever(u, t) == FALSE
IsSelf(u, t) == u = t

\* select ... from user where id = t limit 1
SelectUserAny(usr, t) == TRUE
SelectUser(usr, t) == t \in DOMAIN usr

\* select ... from follows where userId = u and followingId = t limit 1
SelectFollowAlways(rows, u, t) == TRUE
SelectFollow(rows, u, t) == Rows(rows, u, t) > 0

\* db.insert(follows).values({userId: u, followingId: t})
InsertFollow(rows, u, t) == rows (+) SetToBag({Edge(u, t)})

\* delete from follows where userId = u and followingId = t
DeleteFollowNone(rows, u, t) == rows
DeleteFollow(rows, u, t) ==
  [e \in {x \in DOMAIN rows : x # Edge(u, t)} |-> rows[e]]

\* update user set followingCount = followingCount + d where id = u
AddFollowingSkip(usr, u, d) == usr
AddFollowing(usr, u, d) ==
  IF u \in DOMAIN usr
    THEN [usr EXCEPT ![u].followingCount = @ + d]
    ELSE usr

\* update user set followerCount = followerCount + d where id = t
AddFollowerSkip(usr, t, d) == usr
AddFollower(usr, t, d) ==
  IF t \in DOMAIN usr
    THEN [usr EXCEPT ![t].followerCount = @ + d]
    ELSE usr

\* createdAt: timestamp.defaultNow(): later than every stored row's
NextStamp(rows) ==
  IF rows = {} THEN 1
  ELSE 1 + (CHOOSE m \in {x.createdAt : x \in rows} :
              \A x \in rows : x.createdAt <= m)

\* if (rating < 1 || rating > 5)
RatingInRange(k) == k >= 1 /\ k <= 5

\* select ... from "race-review" where userId = u and raceId = r limit 1
SelectReviewNever(rows, u, r) == FALSE
SelectReview(rows, u, r) ==
  \E x \in rows : x.userId = u /\ x.raceId = r

\* select id, userId from "race-review" where id = i limit 1
FindReview(rows, i) == {x \in rows : x.id = i}

\* existingReview.userId !== session.user.id
NotOwnerNever(x, u) == FALSE
NotOwner(x, u) == x.userId # u

\* typeof rating !== "number" || rating < 1 || rating > 5
BadRatingNever(type, k) == FALSE
BadRating(type, k) == type # "number" \/ ~ RatingInRange(k)

\* db.update(raceReviews).set(updateData).where(id = i)
UpdateReview(rows, i, r) ==
  {IF x.id # i THEN x
   ELSE [x EXCEPT !.rating = IF r.ratingType = "absent" THEN @ ELSE r.rating,
                  !.comment = IF r.text = "absent" THEN @ ELSE r.text] :
     x \in rows}

\* db.delete(raceReviews).where(id = i)
DeleteReview(rows, i) == {x \in rows : x.id # i}

Like(u, i) == [userId |-> u, reviewId |-> i]

\* number of rows of review_likes with userId = u and reviewId = i
LikeRows(rows, u, i) == CopiesIn(Like(u, i), rows)

\* reviewId references raceReviews.id with onDelete: "cascade"
CascadeLikesNone(rows, i) == rows
CascadeLikes(rows, i) ==
  [e \in {x \in DOMAIN rows : x.reviewId # i} |-> rows[e]]

\* unique("user_review_unique").on(userId, reviewId)
LikeUniqueOff(rows, u, i) == TRUE
LikeUnique(rows, u, i) == LikeRows(rows, u, i) = 0

\* references on userId and reviewId of review_likes
LikeFK(usr, reviews, u, i) ==
  u \in DOMAIN usr /\ \E x \in reviews : x.id = i

\* db.query.reviewLikes.findFirst(userId = u and reviewId = i)
FindLikeNever(rows, u, i) == FALSE
FindLike(rows, u, i) == LikeRows(rows, u, i) > 0

\* db.insert(reviewLikes).values({userId: u, reviewId: i})
InsertLike(rows, u, i) == rows (+) SetToBag({Like(u, i)})

\* db.delete(reviewLikes).where(userId = u and reviewId = i)
DeleteLike(rows, u, i) ==
  [e \in {x \in DOMAIN rows : x # Like(u, i)} |-> rows[e]]

\* getReviewLikeCount: select count(*) from review_likes where reviewId = i
GetReviewLikeCountAll(rows, i) == BagCardinality(rows)
GetReviewLikeCount(rows, i) ==
  BagCardinality([e \in {x \in DOMAIN rows : x.reviewId = i} |-> rows[e]])

(* -------------------- GET /api/feed/following: the query --------------- *)

\* from raceReviews innerJoin user innerJoin races innerJoin follows on
\* followingId = raceReviews.userId, where follows.userId = v
FeedSource(reviews, usr, frows, v) ==
  {x \in reviews : /\ x.userId \in DOMAIN usr
                   /\ x.raceId \in RaceIds
                   /\ Rows(frows, v, x.userId) > 0}

\* leftJoin(reviewLikes, reviewLikes.reviewId = raceReviews.id): a review
\* with no like row keeps one joined row, with null like columns
InnerJoinLikes(likes, i) ==
  BagCardinality([e \in {x \in DOMAIN likes : x.reviewId = i} |-> likes[e]]) > 0
LeftJoinLikes(likes, i) == TRUE

\* count(distinct reviewLikes.id)::int over the group of review i
CountDistinctLikes(likes, i) ==
  BagCardinality([e \in {x \in DOMAIN likes : x.reviewId = i} |-> likes[e]])

\* bool_or(reviewLikes.userId = v) over the group of review i: null (<<>>)
\* when the group has no like row
BoolOrLikedAny(likes, i, v) ==
  IF \A x \in DOMAIN likes : x.reviewId # i THEN <<>> ELSE <<TRUE>>
BoolOrLiked(likes, i, v) ==
  IF \A x \in DOMAIN likes : x.reviewId # i
    THEN <<>>
    ELSE <<BagIn(Like(v, i), likes)>>

\* review.isLikedByUser || false
OrFalse(b) == b # <<>> /\ b[1]

\* one element of reviewsWithLikes
FeedEntry(x, likes, v) ==
  [id |-> x.id, authorId |-> x.userId, rating |-> x.rating, text |-> x.comment,
   date |-> x.createdAt, raceId |-> x.raceId,
   likeCount |-> CountDistinctLikes(likes, x.id),
   isLikedByUser |-> OrFalse(BoolOrLiked(likes, x.id, v))]

\* orderBy(desc(raceReviews.createdAt)); createdAt values are distinct
RECURSIVE OrderByCreatedAtDesc(_)
OrderByCreatedAtDesc(rows) ==
  IF rows = {} THEN <<>>
  ELSE LET x == CHOOSE y \in rows : \A z \in rows : z.createdAt <= y.createdAt
       IN <<x>> \o OrderByCreatedAtDesc(rows \ {x})

\* .limit(limit).offset(offset) on an ordered result
LimitOffset(s, limit, offset) ==
  SubSeq(s, offset + 1, IF offset + limit < Len(s) THEN offset + limit ELSE Len(s))

\* the reviews of one page of the feed of viewer v
FollowingFeed(reviews, usr, frows, likes, v, page, limit) ==
  LET grouped == {x \in FeedSource(reviews, usr, frows, v) :
                    LeftJoinLikes(likes, x.id)}
      ordered == OrderByCreatedAtDesc(grouped)
      rows == LimitOffset(ordered, limit, (page - 1) * limit)
  IN [k \in 1..Len(rows) |-> FeedEntry(rows[k], likes, v)]

\* select count() from raceReviews innerJoin follows where follows.userId = v
FeedTotal(reviews, frows, v) ==
  LET n[S \in SUBSET reviews] ==
        IF S = {} THEN 0
        ELSE LET x == CHOOSE y \in S : TRUE
             IN Rows(frows, v, x.userId) + n[S \ {x}]
  IN n[reviews]

(* ------------------------ pagination and listings ---------------------- *)

\* Math.ceil(total / limit), limit >= 1
CeilDivFloor(total, limit) == total \div limit
CeilDiv(total, limit) == (total + limit - 1) \div limit

\* the pagination object of a listing response
Pagination(page, limit, total) ==
  [page |-> page, limit |-> limit, total |-> total,
   totalPages |-> CeilDiv(total, limit),
   hasNext |-> page < CeilDiv(total, limit),
   hasPrev |-> page > 1]

\* from follows innerJoin user on follows.userId = user.id
\* where follows.followingId = t
FollowersJoin(frows, usr, t) ==
  {e \in DOMAIN frows : e.followingId = t /\ e.userId \in DOMAIN usr}

\* from follows innerJoin user on follows.followingId = user.id
\* where follows.userId = u
FollowingJoin(frows, usr, u) ==
  {e \in DOMAIN frows : e.userId = u /\ e.followingId \in DOMAIN usr}

\* orderBy(desc(follows.createdAt)): the edges carry no timestamp here, so
\* every order of the rows is a possible result
OrderByFollowedAt(rows) ==
  {s \in [1..Cardinality(rows) -> rows] :
     \A j1, j2 \in 1..Cardinality(rows) : j1 # j2 => s[j1] # s[j2]}

\* select count() from follows where followingId = t
CountFollowers(frows, t) ==
  BagCardinality([e \in {x \in DOMAIN frows : x.followingId = t} |-> frows[e]])

\* select count() from follows where userId = u
CountFollowing(frows, u) ==
  BagCardinality([e \in {x \in DOMAIN frows : x.userId = u} |-> frows[e]])

(* --------------------- GET /api/users/suggestions: the query ----------- *)

ReviewsBy(reviews, u) == {x \in reviews : x.userId = u}

\* leftJoin(follows, userId = v and followingId = u) where follows.id IS NULL
NotFollowedAny(frows, v, u) == TRUE
NotFollowed(frows, v, u) == Rows(frows, v, u) = 0

\* from user innerJoin raceReviews, leftJoin follows,
\* where user.id != v and follows.id IS NULL, grouped by user
SuggestSource(usr, reviews, frows, v) ==
  {u \in DOMAIN usr : /\ ReviewsBy(reviews, u) # {}
                      /\ u # v
                      /\ NotFollowed(frows, v, u)}

\* max(raceReviews.createdAt) over the group of user u
LatestReview(reviews, u) ==
  CHOOSE m \in {x.createdAt : x \in ReviewsBy(reviews, u)} :
    \A x \in ReviewsBy(reviews, u) : x.createdAt <= m

\* one element of suggestedUsers
SuggestEntry(usr, reviews, u) ==
  [id |-> u,
   followerCount |-> usr[u].followerCount,
   followingCount |-> usr[u].followingCount,
   reviewCount |-> Cardinality(ReviewsBy(reviews, u)),
   latestReviewDate |-> LatestReview(reviews, u)]

\* a sorts before b: count(distinct reviews.id) desc, max(createdAt) desc
SuggestBefore(a, b) ==
  \/ a.reviewCount > b.reviewCount
  \/ a.reviewCount = b.reviewCount /\ a.latestReviewDate > b.latestReviewDate

RECURSIVE OrderBySuggest(_)
OrderBySuggest(rows) ==
  IF rows = {} THEN <<>>
  ELSE LET x == CHOOSE y \in rows : \A z \in rows \ {y} : SuggestBefore(y, z)
       IN <<x>> \o OrderBySuggest(rows \ {x})

\* the suggestions for viewer v
SuggestedUsers(usr, reviews, frows, v, limit) ==
  LimitOffset(
    OrderBySuggest({SuggestEntry(usr, reviews, u) :
                      u \in SuggestSource(usr, reviews, frows, v)}),
    limit, 0)

(* ------------------ DELETE /api/user/:id and GET /api/user/:id --------- *)

\* db.delete(user).where(id = i).returning({id}): the ids of the deleted rows
DeletedUsersNone(usr, i) == {}
DeletedUsers(usr, i) == IF i \in DOMAIN usr THEN {i} ELSE {}

\* the user table after db.delete(user).where(id = i)
DeleteUser(usr, i) == [u \in DOMAIN usr \ {i} |-> usr[u]]

\* follows.userId and follows.followingId reference user.id, onDelete cascade
CascadeUserFollowsNone(frows, i) == frows
CascadeUserFollows(frows, i) ==
  [e \in {x \in DOMAIN frows : x.userId # i /\ x.followingId # i} |-> frows[e]]

\* raceReviews.userId references user.id, onDelete cascade
CascadeUserReviews(reviews, i) == {x \in reviews : x.userId # i}

\* reviewLikes.userId references user.id and reviewLikes.reviewId references
\* raceReviews.id, both onDelete cascade
CascadeUserLikes(likes, reviews, i) ==
  [e \in {x \in DOMAIN likes :
            /\ x.userId # i
            /\ \A r \in reviews : r.id = x.reviewId => r.userId # i} |-> likes[e]]

\* currentUserId === userId ? {...userProfile, isFollowing} : {no email}
EmailShownAlways(v, t) == TRUE
EmailShown(v, t) == v = t

\* the user object of the profile response; email is <<>> when left out
ProfileOf(row, v, t, isFollowing) ==
  [id |-> t,
   email |-> IF EmailShown(v, t) THEN <<t>> ELSE <<>>,
   followerCount |-> row.followerCount,
   followingCount |-> row.followingCount,
   isFollowing |-> isFollowing]

(* --------------------------- bookkeeping ------------------------------- *)

\* what a request finds for its own pair when it arrives
PairView(r) ==
  [edges |-> Rows(follows, r.session, r.target),
   following |-> IF r.session \in DOMAIN user
                   THEN user[r.session].followingCount ELSE 0,
   follower |-> IF r.target \in DOMAIN user
                  THEN user[r.target].followerCount ELSE 0,
   reviews |-> Cardinality({x \in raceReviews :
                  x.userId = r.session /\ x.raceId = r.raceId})]

\* the handler returns c.json(..., status)
Return(p, status, o) ==
  /\ pc' = [pc EXCEPT ![p] = "done"]
  /\ resp' = [resp EXCEPT ![p] = status]
  /\ obs' = [obs EXCEPT ![p] = o]

\* the handler goes on to its next awaited statement
Goto(p, label, o) ==
  /\ pc' = [pc EXCEPT ![p] = label]
  /\ obs' = [obs EXCEPT ![p] = o]
  /\ resp' = resp

Wrote(o) == [o EXCEPT !.wrote = @ + 1]

(* ----------------------------- Init ------------------------------------ *)

Init ==
  /\ user = [u \in RegisteredUsers |-> [followerCount |-> 0, followingCount |-> 0]]
  /\ follows = EmptyBag
  /\ raceReviews = {}
  /\ reviewLikes = EmptyBag
  /\ pc = [p \in Procs |-> "idle"]
  /\ req = [p \in Procs |-> NoReq]
  /\ resp = [p \in Procs |-> NoStatus]
  /\ obs = [p \in Procs |-> NoObs]
  /\ hist = <<>>
  /\ started = 0

(* --------------------------- request arrival --------------------------- *)

FollowRequests(sessions, targets) ==
  {[NoReq EXCEPT !.op = o, !.session = s, !.target = t] :
     o \in {"follow", "unfollow"}, s \in sessions, t \in targets}

ReviewRequests(sessions, raceIds, ratings, texts) ==
  {[NoReq EXCEPT !.op = "createReview", !.session = s, !.raceId = r,
                 !.rating = k, !.text = x] :
     s \in sessions, r \in raceIds, k \in ratings, x \in texts}

\* requests served one at a time
SerialRequests == FollowRequests(RegisteredUsers \cup {NoSession}, PathIds)

\* requests served concurrently
RacingRequests ==
  FollowRequests(RacingUsers, RacingUsers)
    \cup ReviewRequests(RacingUsers, FirstRace, {3}, {"a"})

\* a request reaches its handler while no other request is being served
StartSerial(p) ==
  /\ pc[p] \in {"idle", "done"}
  /\ \A q \in Procs \ {p} : pc[q] = "idle"
  /\ \E r \in SerialRequests : req' = [req EXCEPT ![p] = r]
  /\ obs' = [obs EXCEPT ![p] = [NoObs EXCEPT !.pre = DB]]
  /\ hist' = IF pc[p] = "done"
               THEN <<[req |-> req[p], status |-> resp[p], pre |-> obs[p].pre]>>
               ELSE hist
  /\ pc' = [pc EXCEPT ![p] = "session"]
  /\ resp' = [resp EXCEPT ![p] = NoStatus]
  /\ UNCHANGED <<reviewLikes, user, follows, raceReviews, started>>

\* a request reaches its handler, whatever the other handlers are doing
Start(p) ==
  /\ pc[p] \in {"idle", "done"}
  /\ started < MaxRequests
  /\ \E r \in RacingRequests :
       /\ req' = [req EXCEPT ![p] = r]
       /\ LET others == {q \in Procs \ {p} : InFlight(q)} IN
            obs' = [q \in Procs |->
                      IF q = p
                        THEN [NoObs EXCEPT !.pre = PairView(r),
                                           !.n = Cardinality(others),
                                           !.alone = (others = {})]
                      ELSE IF q \in others
                        THEN [obs[q] EXCEPT !.n = @ + 1]
                      ELSE obs[q]]
  /\ pc' = [pc EXCEPT ![p] = "session"]
  /\ resp' = [resp EXCEPT ![p] = NoStatus]
  /\ started' = started + 1
  /\ UNCHANGED <<reviewLikes, user, follows, raceReviews, hist>>

\* auth.api.getSession finds no session: the request carries none, or the
\* user of the one it carries has been deleted
SessionMissingNever(usr, s) == FALSE
SessionMissing(usr, s) == s = NoSession \/ s \notin DOMAIN usr

\* const session = await auth.api.getSession(...); if (!session) return 401
Session(p) ==
  /\ pc[p] = "session"
  /\ IF SessionMissing(user, req[p].session)
       THEN Return(p, 401, obs[p])
       ELSE Goto(p, CASE req[p].op = "follow" -> "f_target"
                      [] req[p].op = "unfollow" -> "u_existing"
                      [] req[p].op = "updateReview" -> "e_find"
                      [] req[p].op = "deleteReview" -> "d_find"
                      [] req[p].op = "like" -> "l_review"
                      [] req[p].op = "unlike" -> "k_existing"
                      [] req[p].op = "feed" -> "g_page"
                      [] req[p].op = "deleteAccount" -> "a_delete"
                      [] req[p].op = "profile" -> "p_user"
                      [] req[p].op = "followers" -> "lf_user"
                      [] req[p].op = "following" -> "lg_user"
                      [] req[p].op = "suggestions" -> "s_query"
                      [] OTHER -> "r_race", obs[p])
  /\ UNCHANGED <<reviewLikes, user, follows, raceReviews, req, hist, started>>

(* ---------------------- POST /api/users/:id/follow --------------------- *)

\* self-follow validation, then the lookup of the user to follow
FollowCheckTarget(p) ==
  /\ pc[p] = "f_target"
  /\ IF IsSelf(req[p].session, req[p].target)
       THEN Return(p, 400, obs[p])
     ELSE IF ~ SelectUser(user, req[p].target)
       THEN Return(p, 404, obs[p])
     ELSE Goto(p, "f_existing", obs[p])
  /\ UNCHANGED <<reviewLikes, user, follows, raceReviews, req, hist, started>>

\* the "already following" lookup
FollowCheckExisting(p) ==
  /\ pc[p] = "f_existing"
  /\ IF SelectFollow(follows, req[p].session, req[p].target)
       THEN Return(p, 409, obs[p])
       ELSE Goto(p, "f_insert", obs[p])
  /\ UNCHANGED <<reviewLikes, user, follows, raceReviews, req, hist, started>>

\* db.insert(follows); a rejected insert throws into the catch block (500)
FollowInsert(p) ==
  /\ pc[p] = "f_insert"
  /\ LET u == req[p].session
         t == req[p].target
         uniq == FollowsUnique(follows, u, t)
     IN IF uniq /\ NoSelfFollow(u, t) /\ FollowsFK(user, u, t)
          THEN /\ follows' = InsertFollow(follows, u, t)
               /\ Goto(p, "f_inc1", Wrote(obs[p]))
          ELSE /\ follows' = follows
               /\ Return(p, 500, [obs[p] EXCEPT !.uq = ~ uniq])
  /\ UNCHANGED <<reviewLikes, user, raceReviews, req, hist, started>>

\* followingCount + 1 for the current user
FollowIncFollowing(p) ==
  /\ pc[p] = "f_inc1"
  /\ user' = AddFollowing(user, req[p].session, 1)
  /\ Goto(p, "f_inc2", Wrote(obs[p]))
  /\ UNCHANGED <<reviewLikes, follows, raceReviews, req, hist, started>>

\* followerCount + 1 for the followed user, then 201
FollowIncFollower(p) ==
  /\ pc[p] = "f_inc2"
  /\ user' = AddFollower(user, req[p].target, 1)
  /\ Return(p, 201, Wrote(obs[p]))
  /\ UNCHANGED <<reviewLikes, follows, raceReviews, req, hist, started>>

(* --------------------- DELETE /api/users/:id/follow -------------------- *)

\* the lookup of the follow relationship
UnfollowCheckExisting(p) ==
  /\ pc[p] = "u_existing"
  /\ IF ~ SelectFollow(follows, req[p].session, req[p].target)
       THEN Return(p, 404, obs[p])
       ELSE Goto(p, "u_delete", obs[p])
  /\ UNCHANGED <<reviewLikes, user, follows, raceReviews, req, hist, started>>

\* db.delete(follows) of the pair
UnfollowDelete(p) ==
  /\ pc[p] = "u_delete"
  /\ follows' = DeleteFollow(follows, req[p].session, req[p].target)
  /\ Goto(p, "u_dec1", Wrote(obs[p]))
  /\ UNCHANGED <<reviewLikes, user, raceReviews, req, hist, started>>

\* followingCount - 1 for the current user
UnfollowDecFollowing(p) ==
  /\ pc[p] = "u_dec1"
  /\ user' = AddFollowing(user, req[p].session, -1)
  /\ Goto(p, "u_dec2", Wrote(obs[p]))
  /\ UNCHANGED <<reviewLikes, follows, raceReviews, req, hist, started>>

\* followerCount - 1 for the unfollowed user, then 200
UnfollowDecFollower(p) ==
  /\ pc[p] = "u_dec2"
  /\ user' = AddFollower(user, req[p].target, -1)
  /\ Return(p, 200, Wrote(obs[p]))
  /\ UNCHANGED <<reviewLikes, follows, raceReviews, req, hist, started>>

(* --------------------------- POST /api/reviews ------------------------- *)

\* body validation, then the lookup of the race
ReviewCheckRace(p) ==
  /\ pc[p] = "r_race"
  /\ IF req[p].text \in {"absent", ""} \/ req[p].ratingType # "number"
       THEN Return(p, 400, obs[p])
     ELSE IF ~ RatingInRange(req[p].rating)
       THEN Return(p, 400, obs[p])
     ELSE IF req[p].raceId \notin RaceIds
       THEN Return(p, 404, obs[p])
     ELSE Goto(p, "r_existing", obs[p])
  /\ UNCHANGED <<reviewLikes, user, follows, raceReviews, req, hist, started>>

\* the "already reviewed" lookup
ReviewCheckExisting(p) ==
  /\ pc[p] = "r_existing"
  /\ IF SelectReview(raceReviews, req[p].session, req[p].raceId)
       THEN Return(p, 409, obs[p])
       ELSE Goto(p, "r_insert", obs[p])
  /\ UNCHANGED <<reviewLikes, user, follows, raceReviews, req, hist, started>>

\* db.insert(raceReviews) with reviewNumber 1; a rejected insert throws (500)
ReviewInsert(p) ==
  /\ pc[p] = "r_insert"
  /\ NextStamp(raceReviews) <= MaxStamp
  /\ LET u == req[p].session
         r == req[p].raceId
         uniq == ReviewUnique(raceReviews, u, r, 1)
     IN IF uniq /\ ReviewNumberCheck(1) /\ u \in DOMAIN user /\ r \in RaceIds
          THEN /\ raceReviews' = raceReviews \cup
                    {[id |-> FreshId(raceReviews), userId |-> u, raceId |-> r,
                      reviewNumber |-> 1, rating |-> req[p].rating,
                      comment |-> req[p].text,
                      createdAt |-> NextStamp(raceReviews)]}
               /\ Goto(p, "r_fetch", Wrote(obs[p]))
          ELSE /\ raceReviews' = raceReviews
               /\ Return(p, 500, [obs[p] EXCEPT !.uq = ~ uniq])
  /\ UNCHANGED <<reviewLikes, user, follows, req, hist, started>>

\* the created review is read back joined with its author, then 201
ReviewFetch(p) ==
  /\ pc[p] = "r_fetch"
  /\ IF \E x \in raceReviews :
          /\ x.userId = req[p].session /\ x.raceId = req[p].raceId
          /\ x.userId \in DOMAIN user
       THEN Return(p, 201, obs[p])
       ELSE Return(p, 500, obs[p])
  /\ UNCHANGED <<reviewLikes, user, follows, raceReviews, req, hist, started>>

(* -------------------------- PUT /api/reviews/:id ----------------------- *)

\* the lookup of the review, the ownership check and the body validation
UpdateFind(p) ==
  /\ pc[p] = "e_find"
  /\ LET found == FindReview(raceReviews, req[p].reviewId) IN
       IF found = {}
         THEN Return(p, 404, obs[p])
       ELSE IF \E x \in found : NotOwner(x, req[p].session)
         THEN Return(p, 403, obs[p])
       ELSE IF req[p].ratingType # "absent"
               /\ BadRating(req[p].ratingType, req[p].rating)
         THEN Return(p, 400, obs[p])
       ELSE IF req[p].ratingType = "absent" /\ req[p].text = "absent"
         THEN Return(p, 400, obs[p])
       ELSE Goto(p, "e_update", obs[p])
  /\ UNCHANGED <<user, follows, raceReviews, reviewLikes, req, hist, started>>

\* db.update(raceReviews)
UpdateWrite(p) ==
  /\ pc[p] = "e_update"
  /\ raceReviews' = UpdateReview(raceReviews, req[p].reviewId, req[p])
  /\ Goto(p, "e_fetch", Wrote(obs[p]))
  /\ UNCHANGED <<user, follows, reviewLikes, req, hist, started>>

\* the updated review is read back joined with its author, then 200;
\* reading a field of a missing row throws (500)
UpdateFetch(p) ==
  /\ pc[p] = "e_fetch"
  /\ IF \E x \in FindReview(raceReviews, req[p].reviewId) : x.userId \in DOMAIN user
       THEN Return(p, 200, obs[p])
       ELSE Return(p, 500, obs[p])
  /\ UNCHANGED <<user, follows, raceReviews, reviewLikes, req, hist, started>>

(* ------------------------- DELETE /api/reviews/:id --------------------- *)

\* the lookup of the review and the ownership check
DeleteFind(p) ==
  /\ pc[p] = "d_find"
  /\ LET found == FindReview(raceReviews, req[p].reviewId) IN
       IF found = {}
         THEN Return(p, 404, obs[p])
       ELSE IF \E x \in found : NotOwner(x, req[p].session)
         THEN Return(p, 403, obs[p])
       ELSE Goto(p, "d_delete", obs[p])
  /\ UNCHANGED <<user, follows, raceReviews, reviewLikes, req, hist, started>>

\* db.delete(raceReviews); the likes of the review go with it; then 200
DeleteWrite(p) ==
  /\ pc[p] = "d_delete"
  /\ raceReviews' = DeleteReview(raceReviews, req[p].reviewId)
  /\ reviewLikes' = CascadeLikes(reviewLikes, req[p].reviewId)
  /\ Return(p, 200, Wrote(obs[p]))
  /\ UNCHANGED <<user, follows, req, hist, started>>

(* ------------------------ POST /api/reviews/:id/like ------------------- *)

\* the lookup of the review
LikeFindReview(p) ==
  /\ pc[p] = "l_review"
  /\ IF FindReview(raceReviews, req[p].reviewId) = {}
       THEN Return(p, 404, obs[p])
       ELSE Goto(p, "l_existing", obs[p])
  /\ UNCHANGED <<user, follows, raceReviews, reviewLikes, req, hist, started>>

\* the "already liked" lookup
LikeCheckExisting(p) ==
  /\ pc[p] = "l_existing"
  /\ IF FindLike(reviewLikes, req[p].session, req[p].reviewId)
       THEN Return(p, 400, obs[p])
       ELSE Goto(p, "l_insert", obs[p])
  /\ UNCHANGED <<user, follows, raceReviews, reviewLikes, req, hist, started>>

\* db.insert(reviewLikes); a rejected insert throws into the catch block (500)
LikeInsert(p) ==
  /\ pc[p] = "l_insert"
  /\ LET u == req[p].session
         i == req[p].reviewId
         uniq == LikeUnique(reviewLikes, u, i)
     IN IF uniq /\ LikeFK(user, raceReviews, u, i)
          THEN /\ reviewLikes' = InsertLike(reviewLikes, u, i)
               /\ Goto(p, "l_count", Wrote(obs[p]))
          ELSE /\ reviewLikes' = reviewLikes
               /\ Return(p, 500, [obs[p] EXCEPT !.uq = ~ uniq])
  /\ UNCHANGED <<user, follows, raceReviews, req, hist, started>>

\* getReviewLikeCount, then 200 with likeCount
LikeCount(p) ==
  /\ pc[p] = "l_count"
  /\ Return(p, 200, [obs[p] EXCEPT !.out =
         [likeCount |-> GetReviewLikeCount(reviewLikes, req[p].reviewId)]])
  /\ UNCHANGED <<user, follows, raceReviews, reviewLikes, req, hist, started>>

(* ----------------------- DELETE /api/reviews/:id/like ------------------ *)

\* the lookup of the like
UnlikeCheckExisting(p) ==
  /\ pc[p] = "k_existing"
  /\ IF ~ FindLike(reviewLikes, req[p].session, req[p].reviewId)
       THEN Return(p, 404, obs[p])
       ELSE Goto(p, "k_delete", obs[p])
  /\ UNCHANGED <<user, follows, raceReviews, reviewLikes, req, hist, started>>

\* db.delete(reviewLikes)
UnlikeDelete(p) ==
  /\ pc[p] = "k_delete"
  /\ reviewLikes' = DeleteLike(reviewLikes, req[p].session, req[p].reviewId)
  /\ Goto(p, "k_count", Wrote(obs[p]))
  /\ UNCHANGED <<user, follows, raceReviews, req, hist, started>>

\* getReviewLikeCount, then 200 with likeCount
UnlikeCount(p) ==
  /\ pc[p] = "k_count"
  /\ Return(p, 200, [obs[p] EXCEPT !.out =
         [likeCount |-> GetReviewLikeCount(reviewLikes, req[p].reviewId)]])
  /\ UNCHANGED <<user, follows, raceReviews, reviewLikes, req, hist, started>>

(* ------------------------ GET /api/feed/following ---------------------- *)

\* the page query; a negative OFFSET is refused by the datastore (500)
FeedSelectPage(p) ==
  /\ pc[p] = "g_page"
  /\ IF (req[p].page - 1) * req[p].limit < 0
       THEN Return(p, 500, obs[p])
       ELSE Goto(p, "g_total", [obs[p] EXCEPT !.out =
              [reviews |-> FollowingFeed(raceReviews, user, follows, reviewLikes,
                                         req[p].session, req[p].page, req[p].limit)]])
  /\ UNCHANGED <<user, follows, raceReviews, reviewLikes, req, hist, started>>

\* the total count query, then 200 with reviews and pagination
FeedSelectTotal(p) ==
  /\ pc[p] = "g_total"
  /\ Return(p, 200, [obs[p] EXCEPT !.out =
         [reviews |-> obs[p].out.reviews,
          total |-> FeedTotal(raceReviews, follows, req[p].session),
          pagination |-> Pagination(req[p].page, req[p].limit,
                           FeedTotal(raceReviews, follows, req[p].session))]])
  /\ UNCHANGED <<user, follows, raceReviews, reviewLikes, req, hist, started>>

(* ---------------------- GET /api/users/:id/followers ------------------- *)

\* the lookup of the listed user
FollowersFindUser(p) ==
  /\ pc[p] = "lf_user"
  /\ IF ~ SelectUser(user, req[p].target)
       THEN Return(p, 404, obs[p])
       ELSE Goto(p, "lf_page", obs[p])
  /\ UNCHANGED <<user, follows, raceReviews, reviewLikes, req, hist, started>>

\* the page query; a negative OFFSET is refused by the datastore (500)
FollowersSelectPage(p) ==
  /\ pc[p] = "lf_page"
  /\ IF (req[p].page - 1) * req[p].limit < 0
       THEN Return(p, 500, obs[p])
       ELSE \E s \in OrderByFollowedAt(FollowersJoin(follows, user, req[p].target)) :
              Goto(p, "lf_total", [obs[p] EXCEPT !.out =
                [items |-> LimitOffset(s, req[p].limit,
                                       (req[p].page - 1) * req[p].limit)]])
  /\ UNCHANGED <<user, follows, raceReviews, reviewLikes, req, hist, started>>

\* the total count query, then 200 with followers and pagination
FollowersSelectTotal(p) ==
  /\ pc[p] = "lf_total"
  /\ Return(p, 200, [obs[p] EXCEPT !.out =
         [items |-> obs[p].out.items,
          pagination |-> Pagination(req[p].page, req[p].limit,
                           CountFollowers(follows, req[p].target))]])
  /\ UNCHANGED <<user, follows, raceReviews, reviewLikes, req, hist, started>>

(* ---------------------- GET /api/users/:id/following ------------------- *)

\* the lookup of the listed user
FollowingFindUser(p) ==
  /\ pc[p] = "lg_user"
  /\ IF ~ SelectUser(user, req[p].target)
       THEN Return(p, 404, obs[p])
       ELSE Goto(p, "lg_page", obs[p])
  /\ UNCHANGED <<user, follows, raceReviews, reviewLikes, req, hist, started>>

\* the page query; a negative OFFSET is refused by the datastore (500)
FollowingSelectPage(p) ==
  /\ pc[p] = "lg_page"
  /\ IF (req[p].page - 1) * req[p].limit < 0
       THEN Return(p, 500, obs[p])
       ELSE \E s \in OrderByFollowedAt(FollowingJoin(follows, user, req[p].target)) :
              Goto(p, "lg_total", [obs[p] EXCEPT !.out =
                [items |-> LimitOffset(s, req[p].limit,
                                       (req[p].page - 1) * req[p].limit)]])
  /\ UNCHANGED <<user, follows, raceReviews, reviewLikes, req, hist, started>>

\* the total count query, then 200 with following and pagination
FollowingSelectTotal(p) ==
  /\ pc[p] = "lg_total"
  /\ Return(p, 200, [obs[p] EXCEPT !.out =
         [items |-> obs[p].out.items,
          pagination |-> Pagination(req[p].page, req[p].limit,
                           CountFollowing(follows, req[p].target))]])
  /\ UNCHANGED <<user, follows, raceReviews, reviewLikes, req, hist, started>>

(* ------------------------ GET /api/users/suggestions ------------------- *)

\* the suggestions query, then 200 with suggestions and their number
SuggestQuery(p) ==
  /\ pc[p] = "s_query"
  /\ LET found == SuggestedUsers(user, raceReviews, follows,
                                 req[p].session, req[p].limit)
     IN Return(p, 200, [obs[p] EXCEPT !.out =
          [suggestions |-> found, total |-> Len(found)]])
  /\ UNCHANGED <<user, follows, raceReviews, reviewLikes, req, hist, started>>

(* --------------------------- DELETE /api/user/:id ---------------------- *)

\* the self-only check, then db.delete(user) with its cascades
AccountDelete(p) ==
  /\ pc[p] = "a_delete"
  /\ LET i == req[p].target IN
       IF req[p].session # i
         THEN /\ Return(p, 403, obs[p])
              /\ UNCHANGED <<user, follows, raceReviews, reviewLikes>>
         ELSE /\ user' = DeleteUser(user, i)
              /\ follows' = CascadeUserFollows(follows, i)
              /\ raceReviews' = CascadeUserReviews(raceReviews, i)
              /\ reviewLikes' = CascadeUserLikes(reviewLikes, raceReviews, i)
              /\ IF DeletedUsers(user, i) = {}
                   THEN Return(p, 404, obs[p])
                   ELSE Return(p, 200, Wrote(obs[p]))
  /\ UNCHANGED <<req, hist, started>>

(* ----------------------------- GET /api/user/:id ----------------------- *)

\* the lookup of the profile; the viewer's own profile is answered at once
ProfileFindUser(p) ==
  /\ pc[p] = "p_user"
  /\ LET v == req[p].session
         t == req[p].target
     IN IF ~ SelectUser(user, t)
          THEN Return(p, 404, obs[p])
        ELSE IF v = t
          THEN Return(p, 200, [obs[p] EXCEPT !.out = ProfileOf(user[t], v, t, FALSE)])
        ELSE Goto(p, "p_follow", [obs[p] EXCEPT !.out = user[t]])
  /\ UNCHANGED <<user, follows, raceReviews, reviewLikes, req, hist, started>>

\* the lookup of the follow relation, then 200 with the profile
ProfileCheckFollow(p) ==
  /\ pc[p] = "p_follow"
  /\ Return(p, 200, [obs[p] EXCEPT !.out =
         ProfileOf(obs[p].out, req[p].session, req[p].target,
                   SelectFollow(follows, req[p].session, req[p].target))])
  /\ UNCHANGED <<user, follows, raceReviews, reviewLikes, req, hist, started>>

(* ------------------------------ Next ----------------------------------- *)

FollowSteps(p) ==
  \/ Session(p)
  \/ FollowCheckTarget(p)
  \/ FollowCheckExisting(p)
  \/ FollowInsert(p)
  \/ FollowIncFollowing(p)
  \/ FollowIncFollower(p)
  \/ UnfollowCheckExisting(p)
  \/ UnfollowDelete(p)
  \/ UnfollowDecFollowing(p)
  \/ UnfollowDecFollower(p)

ReviewSteps(p) ==
  \/ ReviewCheckRace(p)
  \/ ReviewCheckExisting(p)
  \/ ReviewInsert(p)
  \/ ReviewFetch(p)

\* requests interleave statement by statement
Next == \E p \in Procs : Start(p) \/ FollowSteps(p) \/ ReviewSteps(p)

Spec == Init /\ [][Next]_vars

\* each request runs to completion before the next one starts
NextSerial == \E p \in {"p1"} : StartSerial(p) \/ FollowSteps(p)

SpecSerial == Init /\ [][NextSerial]_vars

(* ------------------- reviews and likes, one at a time ------------------ *)

UpdateRequests(sessions, ids, ratings, texts) ==
  {[NoReq EXCEPT !.op = "updateReview", !.session = s, !.reviewId = i,
                 !.ratingType = k[1], !.rating = k[2], !.text = x] :
     s \in sessions, i \in ids, k \in ratings, x \in texts}

DeleteRequests(sessions, ids) ==
  {[NoReq EXCEPT !.op = "deleteReview", !.session = s, !.reviewId = i] :
     s \in sessions, i \in ids}

LikeRequests(sessions, ids) ==
  {[NoReq EXCEPT !.op = o, !.session = s, !.reviewId = i] :
     o \in {"like", "unlike"}, s \in sessions, i \in ids}

\* the authors of the review runs
Authors == {1, 2}

\* review ids a path may carry; a review with that id exists or not,
\* and belongs to either author, depending on the requests served before
ReviewIds == {1}

\* race ids a body may carry; 3 matches no race row
RaceInputs == {1, 3}

\* ratings a body may carry, with their JSON type
RatingInputs ==
  {<<"absent", 0>>, <<"number", 0>>, <<"number", 2>>, <<"number", 6>>,
   <<"string", 2>>}

\* review requests served one at a time
ReviewCrudRequests ==
  ReviewRequests(Authors, FirstRace, {4}, {"a"})
    \cup ReviewRequests({1}, RaceInputs, {0, 4, 6}, {"", "a"})
    \cup {[r EXCEPT !.ratingType = "string"] :
            r \in ReviewRequests({1}, FirstRace, {4}, {"a"})}
    \cup UpdateRequests(Authors, ReviewIds, RatingInputs, {"absent", "b"})
    \cup DeleteRequests(Authors, ReviewIds)
    \cup LikeRequests(Authors, ReviewIds)
    \cup {[NoReq EXCEPT !.op = o] :
            o \in {"createReview", "updateReview", "deleteReview", "like", "unlike"}}

\* a review request reaches its handler while no other request is served
StartReviews(p) ==
  /\ pc[p] \in {"idle", "done"}
  /\ \A q \in Procs \ {p} : pc[q] = "idle"
  /\ \E r \in ReviewCrudRequests : req' = [req EXCEPT ![p] = r]
  /\ obs' = [obs EXCEPT ![p] = [NoObs EXCEPT !.pre = DB]]
  /\ pc' = [pc EXCEPT ![p] = "session"]
  /\ resp' = [resp EXCEPT ![p] = NoStatus]
  /\ UNCHANGED <<user, follows, raceReviews, reviewLikes, hist, started>>

CrudSteps(p) ==
  \/ UpdateFind(p)
  \/ UpdateWrite(p)
  \/ UpdateFetch(p)
  \/ DeleteFind(p)
  \/ DeleteWrite(p)

LikeSteps(p) ==
  \/ LikeFindReview(p)
  \/ LikeCheckExisting(p)
  \/ LikeInsert(p)
  \/ LikeCount(p)
  \/ UnlikeCheckExisting(p)
  \/ UnlikeDelete(p)
  \/ UnlikeCount(p)

NextReviews ==
  \E p \in {"p1"} :
    StartReviews(p) \/ Session(p) \/ ReviewSteps(p) \/ CrudSteps(p) \/ LikeSteps(p)

SpecReviews == Init /\ [][NextReviews]_vars

(* ------------------------- likes, one at a time ------------------------ *)

\* users who like and unlike
Likers == {1, 2, 3}

\* like requests served one at a time: two authors review race 1, three
\* users like the first review, one user the second
LikeSerialRequests ==
  ReviewRequests(Authors, FirstRace, {4}, {"a"})
    \cup LikeRequests(Likers, {1})
    \cup LikeRequests({1}, {2})

\* a like request reaches its handler while no other request is served
StartLikes(p) ==
  /\ pc[p] \in {"idle", "done"}
  /\ \A q \in Procs \ {p} : pc[q] = "idle"
  /\ \E r \in LikeSerialRequests : req' = [req EXCEPT ![p] = r]
  /\ obs' = [obs EXCEPT ![p] = [NoObs EXCEPT !.pre = DB]]
  /\ hist' = IF pc[p] = "done"
               THEN <<[req |-> req[p], status |-> resp[p], pre |-> obs[p].pre,
                       out |-> obs[p].out]>>
               ELSE hist
  /\ pc' = [pc EXCEPT ![p] = "session"]
  /\ resp' = [resp EXCEPT ![p] = NoStatus]
  /\ UNCHANGED <<user, follows, raceReviews, reviewLikes, started>>

NextLikes ==
  \E p \in {"p1"} : StartLikes(p) \/ Session(p) \/ ReviewSteps(p) \/ LikeSteps(p)

SpecLikes == Init /\ [][NextLikes]_vars

(* ------------------------- likes, concurrently ------------------------- *)

\* like requests served concurrently: user 1 reviews race 1, users 1 and 2
\* like and unlike that review
LikeRacingRequests ==
  ReviewRequests({1}, FirstRace, {4}, {"a"})
    \cup LikeRequests(RacingUsers, {1})

\* a like request reaches its handler, whatever the other handlers are doing
StartLikesRacing(p) ==
  /\ pc[p] \in {"idle", "done"}
  /\ started < MaxRequests
  /\ \E r \in LikeRacingRequests :
       /\ req' = [req EXCEPT ![p] = r]
       /\ LET others == {q \in Procs \ {p} : InFlight(q)} IN
            obs' = [q \in Procs |->
                      IF q = p
                        THEN [NoObs EXCEPT !.pre = PairView(r),
                                           !.n = Cardinality(others),
                                           !.alone = (others = {})]
                      ELSE IF q \in others
                        THEN [obs[q] EXCEPT !.n = @ + 1]
                      ELSE obs[q]]
  /\ pc' = [pc EXCEPT ![p] = "session"]
  /\ resp' = [resp EXCEPT ![p] = NoStatus]
  /\ started' = started + 1
  /\ UNCHANGED <<user, follows, raceReviews, reviewLikes, hist>>

NextLikesRacing ==
  \E p \in Procs :
    StartLikesRacing(p) \/ Session(p) \/ ReviewSteps(p) \/ LikeSteps(p)

SpecLikesRacing == Init /\ [][NextLikesRacing]_vars

(* --------------------------- the following feed ------------------------ *)

FeedRequests(sessions, pages, limits) ==
  {[NoReq EXCEPT !.op = "feed", !.session = s, !.page = k, !.limit = l] :
     s \in sessions, k \in pages, l \in limits}

\* users who ask for their feed
Viewers == {1, 2}

\* page and limit query parameters; page 0 gives a negative offset
PageInputs == {0, 1, 2, 3}
LimitInputs == {1, 2}

\* feed runs: user 1 follows and unfollows users 2 and 3, user 2 follows
\* user 1, every user reviews race 1, users 1 and 2 like the first two
\* reviews, users 1 and 2 read their feed
FeedRunRequests ==
  FollowRequests({1}, {2, 3})
    \cup {r \in FollowRequests({2}, {1}) : r.op = "follow"}
    \cup ReviewRequests(RegisteredUsers, FirstRace, {4}, {"a"})
    \cup LikeRequests(Viewers, {1})
    \cup LikeRequests({1}, {2})
    \cup FeedRequests(Viewers, PageInputs, LimitInputs)
    \cup FeedRequests({NoSession}, {1}, {1})

\* a request reaches its handler while no other request is served
StartFeed(p) ==
  /\ pc[p] \in {"idle", "done"}
  /\ \A q \in Procs \ {p} : pc[q] = "idle"
  /\ \E r \in FeedRunRequests : req' = [req EXCEPT ![p] = r]
  /\ obs' = [obs EXCEPT ![p] = [NoObs EXCEPT !.pre = DB]]
  /\ pc' = [pc EXCEPT ![p] = "session"]
  /\ resp' = [resp EXCEPT ![p] = NoStatus]
  /\ UNCHANGED <<user, follows, raceReviews, reviewLikes, hist, started>>

FeedSteps(p) ==
  \/ FeedSelectPage(p)
  \/ FeedSelectTotal(p)

NextFeed ==
  \E p \in {"p1"} :
    StartFeed(p) \/ FollowSteps(p) \/ ReviewSteps(p) \/ LikeSteps(p) \/ FeedSteps(p)

SpecFeed == Init /\ [][NextFeed]_vars

(* ------------------------ listings, one at a time ---------------------- *)

ListRequests(sessions, targets, pages, limits) ==
  {[NoReq EXCEPT !.op = o, !.session = s, !.target = t, !.page = k, !.limit = l] :
     o \in {"followers", "following"}, s \in sessions, t \in targets,
     k \in pages, l \in limits}

SuggestRequests(sessions, limits) ==
  {[NoReq EXCEPT !.op = "suggestions", !.session = s, !.limit = l] :
     s \in sessions, l \in limits}

\* listing runs: users 1 and 2 follow user 3, user 1 follows and unfollows
\* user 2, users 2 and 3 review the two races, user 1 reads the followers
\* and following of users 1 and 3 and of a missing user, its feed and its
\* suggestions
ReadRunRequests ==
  FollowRequests({1}, {2})
    \cup {r \in FollowRequests({1, 2}, {3}) : r.op = "follow"}
    \cup ReviewRequests({2, 3}, RaceIds, {4}, {"a"})
    \cup ListRequests({1}, {1, 3, 4}, PageInputs, LimitInputs)
    \cup FeedRequests({1}, PageInputs, LimitInputs)
    \cup SuggestRequests({1, 2}, LimitInputs)

\* a request reaches its handler while no other request is served
StartRead(p) ==
  /\ pc[p] \in {"idle", "done"}
  /\ \A q \in Procs \ {p} : pc[q] = "idle"
  /\ \E r \in ReadRunRequests : req' = [req EXCEPT ![p] = r]
  /\ obs' = [obs EXCEPT ![p] = [NoObs EXCEPT !.pre = DB]]
  /\ pc' = [pc EXCEPT ![p] = "session"]
  /\ resp' = [resp EXCEPT ![p] = NoStatus]
  /\ UNCHANGED <<user, follows, raceReviews, reviewLikes, hist, started>>

ListSteps(p) ==
  \/ FollowersFindUser(p)
  \/ FollowersSelectPage(p)
  \/ FollowersSelectTotal(p)
  \/ FollowingFindUser(p)
  \/ FollowingSelectPage(p)
  \/ FollowingSelectTotal(p)
  \/ SuggestQuery(p)

NextRead ==
  \E p \in {"p1"} :
    StartRead(p) \/ FollowSteps(p) \/ ReviewSteps(p) \/ ListSteps(p) \/ FeedSteps(p)

SpecRead == Init /\ [][NextRead]_vars

(* ------------------- accounts and profiles, one at a time -------------- *)

AccountRequests(sessions, targets) ==
  {[NoReq EXCEPT !.op = "deleteAccount", !.session = s, !.target = t] :
     s \in sessions, t \in targets}

ProfileRequests(sessions, targets) ==
  {[NoReq EXCEPT !.op = "profile", !.session = s, !.target = t] :
     s \in sessions, t \in targets}

\* the operations that write
MutatingOps ==
  {"follow", "unfollow", "createReview", "updateReview", "deleteReview",
   "like", "unlike", "deleteAccount"}

\* path ids of the account runs; 4 matches no user
AccountTargets == {1, 2, 4}

\* account runs: users 1 and 2 follow and unfollow each other, themselves
\* and a missing user, review race 1 (user 1 also with a bad rating and a
\* missing race), update, delete, like and unlike review 1, delete their
\* own and each other's account, read profiles; every writing request is
\* also made without a session
AccountRunRequests ==
  FollowRequests(RacingUsers, AccountTargets)
    \cup ReviewRequests(RacingUsers, FirstRace, {4}, {"a"})
    \cup ReviewRequests({1}, RaceInputs, {0, 4}, {"a"})
    \cup UpdateRequests(RacingUsers, ReviewIds,
                        {<<"absent", 0>>, <<"number", 2>>, <<"number", 6>>},
                        {"absent"})
    \cup DeleteRequests(RacingUsers, ReviewIds)
    \cup LikeRequests(RacingUsers, ReviewIds)
    \cup AccountRequests(RacingUsers, RacingUsers)
    \cup ProfileRequests(RacingUsers, AccountTargets)
    \cup {[NoReq EXCEPT !.op = o] : o \in MutatingOps \cup {"profile"}}

\* a request reaches its handler while no other request is served
StartAccount(p) ==
  /\ pc[p] \in {"idle", "done"}
  /\ \A q \in Procs \ {p} : pc[q] = "idle"
  /\ \E r \in AccountRunRequests : req' = [req EXCEPT ![p] = r]
  /\ obs' = [obs EXCEPT ![p] = [NoObs EXCEPT !.pre = DB]]
  /\ pc' = [pc EXCEPT ![p] = "session"]
  /\ resp' = [resp EXCEPT ![p] = NoStatus]
  /\ UNCHANGED <<user, follows, raceReviews, reviewLikes, hist, started>>

AccountSteps(p) ==
  \/ AccountDelete(p)
  \/ ProfileFindUser(p)
  \/ ProfileCheckFollow(p)

NextAccount ==
  \E p \in {"p1"} :
    \/ StartAccount(p)
    \/ FollowSteps(p)
    \/ ReviewSteps(p)
    \/ CrudSteps(p)
    \/ LikeSteps(p)
    \/ AccountSteps(p)

SpecAccount == Init /\ [][NextAccount]_vars

(* --------------------- deletions, concurrently ------------------------- *)

\* racing runs: user 1 reviews race 1 and deletes the review, user 2 likes
\* it and follows user 1, both users delete their account, user 2 tries
\* to delete the account of user 1
CascadeRacingRequests ==
  ReviewRequests({1}, FirstRace, {4}, {"a"})
    \cup DeleteRequests({1}, ReviewIds)
    \cup {r \in LikeRequests({2}, ReviewIds) : r.op = "like"}
    \cup {r \in FollowRequests({2}, {1}) : r.op = "follow"}
    \cup AccountRequests({1}, {1})
    \cup AccountRequests({2}, RacingUsers)

\* a request reaches its handler, whatever the other handlers are doing
StartCascadeRacing(p) ==
  /\ pc[p] \in {"idle", "done"}
  /\ started < MaxRequests
  /\ \E r \in CascadeRacingRequests :
       /\ req' = [req EXCEPT ![p] = r]
       /\ LET others == {q \in Procs \ {p} : InFlight(q)} IN
            obs' = [q \in Procs |->
                      IF q = p
                        THEN [NoObs EXCEPT !.pre = DB,
                                           !.n = Cardinality(others),
                                           !.alone = (others = {})]
                      ELSE IF q \in others
                        THEN [obs[q] EXCEPT !.n = @ + 1]
                      ELSE obs[q]]
  /\ pc' = [pc EXCEPT ![p] = "session"]
  /\ resp' = [resp EXCEPT ![p] = NoStatus]
  /\ started' = started + 1
  /\ UNCHANGED <<user, follows, raceReviews, reviewLikes, hist>>

NextCascadeRacing ==
  \E p \in Procs :
    \/ StartCascadeRacing(p)
    \/ Session(p)
    \/ FollowCheckTarget(p)
    \/ FollowCheckExisting(p)
    \/ FollowInsert(p)
    \/ FollowIncFollowing(p)
    \/ FollowIncFollower(p)
    \/ ReviewSteps(p)
    \/ DeleteFind(p)
    \/ DeleteWrite(p)
    \/ LikeFindReview(p)
    \/ LikeCheckExisting(p)
    \/ LikeInsert(p)
    \/ LikeCount(p)
    \/ AccountDelete(p)

SpecCascadeRacing == Init /\ [][NextCascadeRacing]_vars

TypeOK ==
  /\ DOMAIN user \subseteq RegisteredUsers
  /\ \A u \in DOMAIN user : user[u].followerCount \in Int /\ user[u].followingCount \in Int
  /\ Len(hist) <= 1
  /\ started \in 0..MaxRequests
  /\ \A x, y \in raceReviews : x.createdAt = y.createdAt => x = y

(* ------------------------ vocabulary of the properties ----------------- *)

\* number of rows of the follows table whose followingId is u
FollowersOf(rows, u) ==
  BagCardinality([e \in {x \in DOMAIN rows : x.followingId = u} |-> rows[e]])

\* number of rows of the follows table whose userId is u
FollowingOf(rows, u) ==
  BagCardinality([e \in {x \in DOMAIN rows : x.userId = u} |-> rows[e]])

CountersMatch(usr, rows) ==
  \A u \in DOMAIN usr :
    /\ usr[u].followerCount = FollowersOf(rows, u)
    /\ usr[u].followingCount = FollowingOf(rows, u)

Quiet == \A p \in Procs : ~ InFlight(p)

\* process p has completed a request of kind op made with a session
Done(p, op) ==
  pc[p] = "done" /\ req[p].op = op /\ req[p].session # NoSession

(* -------------------------------- C1 ----------------------------------- *)

\* C1: when Follow and Unfollow requests are served one at a time, then
\* between requests every user's followerCount is the number of follows rows
\* whose followingId is that user, and followingCount the number of rows
\* whose userId is that user.
C1_CountersMatchEdges == Quiet => CountersMatch(user, follows)

\* a successful unfollow has been served and edges remain
C1_Witness ==
  /\ Done("p1", "unfollow") /\ resp["p1"] = 200
  /\ follows # EmptyBag
  /\ hist # <<>>

(* -------------------------------- C2 ----------------------------------- *)

\* C2: while a Follow request that no other request overlaps is being
\* served, the edge of its pair is present exactly when followingCount of
\* the actor has been incremented, and exactly when followerCount of the
\* target has been incremented: no state shows one without the others.
C2_FollowIsAtomic ==
  \A p \in Procs :
    (pc[p] # "idle" /\ req[p].op = "follow" /\ obs[p].n = 0) =>
      LET a == req[p].session
          t == req[p].target
          inserted == Rows(follows, a, t) > obs[p].pre.edges
      IN /\ inserted <=> (user[a].followingCount = obs[p].pre.following + 1)
         /\ inserted <=> (user[t].followerCount = obs[p].pre.follower + 1)

(* -------------------------------- C3 ----------------------------------- *)

\* the two processes have each completed Follow(a, t) with a # t, the two requests
\* overlapped each other and nothing else, and the pair had no edge when
\* the first of them arrived; first is the one that arrived first
RacedFollows(first, second) ==
  /\ first # second
  /\ Done(first, "follow") /\ Done(second, "follow")
  /\ req[first] = req[second]
  /\ req[first].session # req[first].target
  /\ obs[first].n = 1 /\ obs[second].n = 1
  /\ obs[first].alone /\ ~ obs[second].alone
  /\ obs[first].pre.edges = 0

\* C3: once two concurrent Follow requests for the same pair, issued when
\* the pair had no edge, have both finished, exactly one edge exists for the
\* pair and both counters have increased by exactly 1.
C3_RacedFollowsApplyOnce ==
  \A first, second \in Procs :
    RacedFollows(first, second) =>
      LET a == req[first].session
          t == req[first].target
      IN /\ Rows(follows, a, t) = 1
         /\ user[a].followingCount = obs[first].pre.following + 1
         /\ user[t].followerCount = obs[first].pre.follower + 1

\* both requests passed the "already following" lookup and one insert was
\* rejected by the unique constraint
C3_Witness ==
  \E first, second \in Procs :
    /\ RacedFollows(first, second)
    /\ \E p \in {first, second} : obs[p].uq
    /\ \E p \in {first, second} : resp[p] = 201

(* -------------------------------- C4 ----------------------------------- *)

\* C4: a Follow or review Create request whose insert is rejected by the
\* unique constraint answers 409.
C4_UniqueViolationIsConflict ==
  \A p \in Procs :
    (pc[p] = "done" /\ obs[p].uq) => resp[p] = 409

(* -------------------------------- C5 ----------------------------------- *)

\* C5: a Follow request served alone, by an authenticated actor for another,
\* existing user it does not follow yet, answers 201, and afterwards the
\* pair has exactly one edge, followingCount of the actor is one more than
\* before and followerCount of the target is one more than before.
C5_FollowSucceeds ==
  LET a == req["p1"].session
      t == req["p1"].target
      before == obs["p1"].pre
  IN (/\ Done("p1", "follow")
      /\ a # t
      /\ t \in DOMAIN before.user
      /\ Rows(before.follows, a, t) = 0)
     => /\ resp["p1"] = 201
        /\ Rows(follows, a, t) = 1
        /\ user[a].followingCount = before.user[a].followingCount + 1
        /\ user[t].followerCount = before.user[t].followerCount + 1

\* a follow has succeeded in a datastore that already held edges
C5_Witness ==
  /\ Done("p1", "follow") /\ resp["p1"] = 201
  /\ obs["p1"].pre.follows # EmptyBag
  /\ Rows(follows, req["p1"].session, req["p1"].target) = 1

(* -------------------------------- C6 ----------------------------------- *)

\* a successful Follow(a, t) was served, and Unfollow(a, t) right after it
FollowThenUnfollow ==
  /\ Done("p1", "unfollow")
  /\ hist # <<>>
  /\ hist[1].req.op = "follow"
  /\ hist[1].status = 201
  /\ hist[1].req.session = req["p1"].session
  /\ hist[1].req.target = req["p1"].target

\* C6: a successful Follow(a, t) followed directly by Unfollow(a, t) leaves
\* no edge for the pair and leaves followingCount of a and followerCount of
\* t at the values they had before the Follow.
C6_FollowUnfollowRoundTrip ==
  FollowThenUnfollow =>
    LET a == req["p1"].session
        t == req["p1"].target
        before == hist[1].pre
    IN /\ resp["p1"] = 200
       /\ Rows(follows, a, t) = 0
       /\ Rows(before.follows, a, t) = 0
       /\ user[a].followingCount = before.user[a].followingCount
       /\ user[t].followerCount = before.user[t].followerCount

\* the round trip has been made in a datastore holding other edges
C6_Witness ==
  /\ FollowThenUnfollow
  /\ resp["p1"] = 200
  /\ follows # EmptyBag

(* -------------------------------- C7 ----------------------------------- *)

\* C7: an Unfollow request for a pair that has no edge answers 404 and
\* leaves the follows table and every counter as they were.
C7_UnfollowWithoutEdge ==
  (/\ Done("p1", "unfollow")
   /\ Rows(obs["p1"].pre.follows, req["p1"].session, req["p1"].target) = 0)
  => /\ resp["p1"] = 404
     /\ DB = obs["p1"].pre

\* an unfollow was refused while the actor follows somebody else
C7_Witness ==
  /\ Done("p1", "unfollow") /\ resp["p1"] = 404
  /\ user[req["p1"].session].followingCount > 0

(* -------------------------------- C8 ----------------------------------- *)

\* C8: a Follow request whose target is the authenticated actor answers
\* 400, executes no mutating statement and leaves the datastore as it was,
\* whatever edges and counters exist.
C8_SelfFollowRejected ==
  (Done("p1", "follow") /\ req["p1"].session = req["p1"].target)
  => /\ resp["p1"] = 400
     /\ obs["p1"].wrote = 0
     /\ DB = obs["p1"].pre

\* a self-follow was refused by a user who follows and is followed
C8_Witness ==
  /\ Done("p1", "follow") /\ req["p1"].session = req["p1"].target
  /\ resp["p1"] = 400
  /\ user[req["p1"].session].followingCount > 0
  /\ user[req["p1"].session].followerCount > 0

(* -------------------------------- C9 ----------------------------------- *)

\* C9: in every state, under any interleaving of requests, no follows row
\* has userId equal to followingId and no pair has more than one row.
C9_NoSelfNoDuplicateEdges ==
  \A e \in DOMAIN follows :
    /\ e.userId # e.followingId
    /\ follows[e] = 1

\* the unique constraint has rejected the insert of a racing Follow
C9_Witness ==
  \E p \in Procs :
    /\ Done(p, "follow") /\ obs[p].uq /\ resp[p] = 500
    /\ Rows(follows, req[p].session, req[p].target) = 1

(* -------------------------------- C10 ---------------------------------- *)

\* C10: a Follow request for an id that matches no user answers 404, a
\* Follow request for a pair that already has an edge answers 409, and in
\* both cases the follows table and the counters are left as they were.
C10_FollowRejections ==
  LET a == req["p1"].session
      t == req["p1"].target
      before == obs["p1"].pre
  IN (Done("p1", "follow") /\ a # t) =>
       /\ (t \notin DOMAIN before.user) => (resp["p1"] = 404 /\ DB = before)
       /\ (Rows(before.follows, a, t) > 0) => (resp["p1"] = 409 /\ DB = before)

\* a follow of an unknown id was refused, then a repeated follow
C10_Witness ==
  /\ hist # <<>>
  /\ hist[1].req.op = "follow" /\ hist[1].status = 404
  /\ hist[1].req.target \notin DOMAIN user
  /\ Done("p1", "follow") /\ resp["p1"] = 409
  /\ Rows(follows, req["p1"].session, req["p1"].target) = 1

(* -------------------------------- C11 ---------------------------------- *)

\* C11: in every state, in-flight requests and interleaved Follow and
\* Unfollow requests included, every user's followerCount and
\* followingCount are at least 0.
C11_CountersNonNegative ==
  \A u \in DOMAIN user :
    user[u].followerCount >= 0 /\ user[u].followingCount >= 0

(* -------------------------------- C12 ---------------------------------- *)

\* C12: in every state, under any interleaving of review Create requests,
\* no two stored reviews have the same (userId, raceId), and every stored
\* review has reviewNumber 1.
C12_OneReviewPerUserRace ==
  /\ \A x, y \in raceReviews :
       (x.userId = y.userId /\ x.raceId = y.raceId) => x = y
  /\ \A x \in raceReviews : x.reviewNumber = 1

\* two Creates by the same user for the same race raced, one was inserted
\* and the other was rejected by the unique constraint
C12_Witness ==
  \E p, q \in Procs :
    /\ p # q
    /\ Done(p, "createReview") /\ Done(q, "createReview")
    /\ req[p] = req[q]
    /\ obs[p].uq /\ resp[q] = 201
    /\ \E x \in raceReviews : x.userId = req[p].session /\ x.raceId = req[p].raceId

(* -------------------------------- C13 ---------------------------------- *)

\* the review with id i in the table rows, as a set of at most one row
ReviewAt(rows, i) == {x \in rows : x.id = i}

\* C13: a review Create, otherwise valid, by a user who already has a
\* review for the race answers 409 and adds no row; a review Create whose
\* rating is a number outside [1,5] answers 400 and adds no row.
C13_CreateRejections ==
  LET r == req["p1"]
      before == obs["p1"].pre
  IN Done("p1", "createReview") =>
       /\ (/\ r.text \notin {"absent", ""}
           /\ r.ratingType = "number" /\ r.rating \in 1..5
           /\ \E x \in before.raceReviews :
                x.userId = r.session /\ x.raceId = r.raceId)
          => (resp["p1"] = 409 /\ raceReviews = before.raceReviews)
       /\ (r.ratingType = "number" /\ r.rating \notin 1..5)
          => (resp["p1"] = 400 /\ raceReviews = before.raceReviews)

\* a second Create for the same race was refused
C13_Witness ==
  /\ Done("p1", "createReview") /\ resp["p1"] = 409
  /\ \E x \in raceReviews :
       x.userId = req["p1"].session /\ x.raceId = req["p1"].raceId

(* -------------------------------- C14 ---------------------------------- *)

\* C14: after any sequence of review requests every stored rating is an
\* integer from 1 to 5; an Update by the owner of an existing review whose
\* body carries a rating that is not a number from 1 to 5 answers 400 and
\* leaves the datastore as it was.
C14_RatingsInRange ==
  /\ \A x \in raceReviews : x.rating \in 1..5
  /\ LET r == req["p1"]
         before == obs["p1"].pre
     IN (/\ Done("p1", "updateReview")
         /\ \E x \in ReviewAt(before.raceReviews, r.reviewId) : x.userId = r.session
         /\ r.ratingType # "absent"
         /\ (r.ratingType # "number" \/ r.rating \notin 1..5))
        => (resp["p1"] = 400 /\ DB = before)

\* the owner's Update with rating 6 was refused
C14_Witness ==
  /\ Done("p1", "updateReview") /\ resp["p1"] = 400
  /\ req["p1"].ratingType = "number" /\ req["p1"].rating = 6
  /\ \E x \in ReviewAt(raceReviews, req["p1"].reviewId) :
       x.userId = req["p1"].session

(* -------------------------------- C15 ---------------------------------- *)

\* C15: an Update or Delete of an existing review by an authenticated user
\* who is not its owner answers 403 and leaves reviews and likes as they
\* were; an Update or Delete of an id that matches no review answers 404;
\* a request that changed the datastore was made by the review's owner.
C15_OwnerOnly ==
  LET r == req["p1"]
      before == obs["p1"].pre
      target == ReviewAt(before.raceReviews, r.reviewId)
  IN (Done("p1", "updateReview") \/ Done("p1", "deleteReview")) =>
       /\ (\E x \in target : x.userId # r.session)
          => /\ resp["p1"] = 403
             /\ raceReviews = before.raceReviews
             /\ reviewLikes = before.reviewLikes
       /\ (target = {}) => (resp["p1"] = 404 /\ DB = before)
       /\ (DB # before) => (\E x \in target : x.userId = r.session)

\* a Delete of somebody else's review, which has likes, was refused
C15_Witness ==
  /\ Done("p1", "deleteReview") /\ resp["p1"] = 403
  /\ \E x \in ReviewAt(raceReviews, req["p1"].reviewId) :
       x.userId # req["p1"].session
  /\ GetReviewLikeCount(reviewLikes, req["p1"].reviewId) > 0

(* -------------------------------- C16 ---------------------------------- *)

\* C16: in every state reached by interleaved Like and Unlike requests the
\* review_likes table holds at most one row for each (userId, reviewId)
\* pair; the author of a review may like it.
C16_OneLikePerUserReview ==
  \A e \in DOMAIN reviewLikes : CopiesIn(e, reviewLikes) <= 1

\* two overlapping Likes of the author on the author's own review: one was
\* accepted, the other refused by the unique constraint
C16_Witness ==
  /\ Done("p1", "like") /\ Done("p2", "like")
  /\ req["p1"].session = req["p2"].session
  /\ req["p1"].reviewId = req["p2"].reviewId
  /\ \E x \in raceReviews :
       x.id = req["p1"].reviewId /\ x.userId = req["p1"].session
  /\ resp["p1"] = 200 /\ resp["p2"] = 500 /\ obs["p2"].uq
  /\ CopiesIn(Like(req["p1"].session, req["p1"].reviewId), reviewLikes) = 1

(* -------------------------------- C17 ---------------------------------- *)

\* users with a like row on review i
LikersOf(rows, i) == {u \in RegisteredUsers : BagIn(Like(u, i), rows)}

\* C17: with requests served one at a time, a Like by u of an existing
\* review that has c likes, none by u, answers likeCount = c + 1, and the
\* Unlike by u of the same review served next answers likeCount = c; each
\* answer is the number of like rows of the review after the request.
C17_LikeUnlikeCounts ==
  LET r == req["p1"]
      before == obs["p1"].pre
      c == Cardinality(LikersOf(before.reviewLikes, r.reviewId))
  IN /\ (/\ Done("p1", "like")
         /\ \E x \in before.raceReviews : x.id = r.reviewId
         /\ r.session \notin LikersOf(before.reviewLikes, r.reviewId))
        => /\ resp["p1"] = 200
           /\ obs["p1"].out.likeCount = c + 1
           /\ obs["p1"].out.likeCount =
                Cardinality(LikersOf(reviewLikes, r.reviewId))
     /\ (/\ Done("p1", "unlike")
         /\ hist # <<>>
         /\ hist[1].req = [r EXCEPT !.op = "like"]
         /\ hist[1].status = 200)
        => /\ resp["p1"] = 200
           /\ obs["p1"].out.likeCount =
                Cardinality(LikersOf(hist[1].pre.reviewLikes, r.reviewId))
           /\ obs["p1"].out.likeCount =
                Cardinality(LikersOf(reviewLikes, r.reviewId))

\* a Like and then an Unlike of a review that two other users like, while
\* another review has a like too
C17_Witness ==
  /\ Done("p1", "unlike") /\ resp["p1"] = 200
  /\ hist # <<>>
  /\ hist[1].req = [req["p1"] EXCEPT !.op = "like"]
  /\ hist[1].status = 200 /\ hist[1].out.likeCount = 3
  /\ obs["p1"].out.likeCount = 2
  /\ \E e \in DOMAIN reviewLikes : e.reviewId # req["p1"].reviewId

(* -------------------------------- C18 ---------------------------------- *)

\* C18: with requests served one at a time, a Like of an id that matches no
\* review answers 404; a Like by a user who already has a like row on the
\* review answers 400 or 409; an Unlike by a user with no like row on the
\* review answers 404; in the three cases review_likes is unchanged.
C18_LikeRejections ==
  LET r == req["p1"]
      before == obs["p1"].pre
      liked == BagIn(Like(r.session, r.reviewId), before.reviewLikes)
  IN /\ (Done("p1", "like") /\ ReviewAt(before.raceReviews, r.reviewId) = {})
        => (resp["p1"] = 404 /\ reviewLikes = before.reviewLikes)
     /\ (Done("p1", "like") /\ liked)
        => (resp["p1"] \in {400, 409} /\ reviewLikes = before.reviewLikes)
     /\ (Done("p1", "unlike") /\ ~ liked)
        => (resp["p1"] = 404 /\ reviewLikes = before.reviewLikes)

\* a Like served right after the same user's accepted Like of the same
\* review was refused
C18_Witness ==
  /\ Done("p1", "like") /\ resp["p1"] = 400
  /\ hist # <<>> /\ hist[1].req = req["p1"] /\ hist[1].status = 200
  /\ BagIn(Like(req["p1"].session, req["p1"].reviewId), reviewLikes)

(* -------------------------------- C19 ---------------------------------- *)

\* the reviews whose author v follows
FollowedReviews(v) == {x \in raceReviews : BagIn(Edge(v, x.userId), follows)}

\* page numbers from 1 on, enough to hold every review one per page
FeedPageNumbers == {k \in PageInputs : k >= 1}

\* s is ordered by date, newest first
NewestFirst(s) == \A j1, j2 \in 1..Len(s) : j1 < j2 => s[j1].date >= s[j2].date

LikeFieldsRight(e, v) ==
  /\ e.likeCount = Cardinality(LikersOf(reviewLikes, e.id))
  /\ e.likeCount = BagCardinality(
       [x \in {y \in DOMAIN reviewLikes : y.reviewId = e.id} |-> reviewLikes[x]])
  /\ e.isLikedByUser <=> BagIn(Like(v, e.id), reviewLikes)

\* C20: with requests served one at a time, every entry of every page of
\* the following feed has likeCount equal to the number of like rows of
\* its review and isLikedByUser true exactly when the viewer has a like
\* row on it; so have the entries a feed request returns.
C20_FeedLikeFields ==
  /\ \A v \in RegisteredUsers, l \in LimitInputs, k \in FeedPageNumbers :
       LET s == FollowingFeed(raceReviews, user, follows, reviewLikes, v, k, l)
       IN \A j \in 1..Len(s) : LikeFieldsRight(s[j], v)
  /\ (Done("p1", "feed") /\ resp["p1"] = 200)
       => \A j \in 1..Len(obs["p1"].out.reviews) :
            LikeFieldsRight(obs["p1"].out.reviews[j], req["p1"].session)

\* a feed whose first entry has one like, the viewer's, and whose second
\* entry is liked by somebody else only
C20_Witness ==
  /\ Done("p1", "feed") /\ resp["p1"] = 200
  /\ Len(obs["p1"].out.reviews) = 2
  /\ obs["p1"].out.reviews[1].likeCount = 1
  /\ obs["p1"].out.reviews[1].isLikedByUser
  /\ obs["p1"].out.reviews[2].likeCount = 1
  /\ ~ obs["p1"].out.reviews[2].isLikedByUser

(* -------------------------------- C21 ---------------------------------- *)

Min(a, b) == IF a < b THEN a ELSE b
Max(a, b) == IF a > b THEN a ELSE b

\* the least number of pages of size limit that hold total items
PagesFor(total, limit) ==
  CHOOSE k \in 0..total : k * limit >= total /\ (k = 0 \/ (k - 1) * limit < total)

\* the size of the full result set of a listing request r
ResultSize(r) ==
  CASE r.op = "followers" ->
         Cardinality({u \in DOMAIN user : BagIn(Edge(u, r.target), follows)})
    [] r.op = "following" ->
         Cardinality({u \in DOMAIN user : BagIn(Edge(r.target, u), follows)})
    [] OTHER -> Cardinality(FollowedReviews(r.session))

\* the items of a listing response
ItemsOf(r, o) == IF r.op = "feed" THEN o.reviews ELSE o.items

Listing(p) == Done(p, "followers") \/ Done(p, "following") \/ Done(p, "feed")

\* C21: with requests served one at a time, a followers, following or
\* feed request with page >= 1 and limit >= 1 for an existing user answers
\* 200 with min(limit, max(0, total - (page-1)*limit)) items, the size of
\* the full result set as total, totalPages = ceil(total / limit),
\* hasNext = (page < totalPages) and hasPrev = (page > 1).
C21_PaginationMetadata ==
  LET r == req["p1"]
      o == obs["p1"].out
      total == ResultSize(r)
  IN (/\ Listing("p1") /\ r.page >= 1 /\ r.limit >= 1
      /\ (r.op = "feed" \/ r.target \in DOMAIN user))
     => /\ resp["p1"] = 200
        /\ Len(ItemsOf(r, o)) = Min(r.limit, Max(0, total - (r.page - 1) * r.limit))
        /\ o.pagination.total = total
        /\ o.pagination.totalPages = PagesFor(total, r.limit)
        /\ o.pagination.hasNext = (r.page < PagesFor(total, r.limit))
        /\ o.pagination.hasPrev = (r.page > 1)
        /\ o.pagination.page = r.page /\ o.pagination.limit = r.limit

\* page 2 of size 1 of a result set of 3: one item, a next and a previous
\* page, 3 pages
C21_Witness ==
  /\ Listing("p1") /\ resp["p1"] = 200
  /\ req["p1"].page = 2 /\ req["p1"].limit = 1
  /\ ResultSize(req["p1"]) = 3
  /\ Len(ItemsOf(req["p1"], obs["p1"].out)) = 1
  /\ obs["p1"].out.pagination.totalPages = 3
  /\ obs["p1"].out.pagination.hasNext /\ obs["p1"].out.pagination.hasPrev

(* -------------------------------- C22 ---------------------------------- *)

\* C22: a followers, following or feed request whose page parameter is
\* zero or negative answers 400.
C22_BadPageIsValidationFailure ==
  (Listing("p1") /\ req["p1"].page < 1) => resp["p1"] = 400

(* -------------------------------- C23 ---------------------------------- *)

\* the users the viewer v may be offered: authors other than v whom v
\* does not follow
Eligible(v) ==
  {u \in DOMAIN user : /\ u # v
                       /\ \E x \in raceReviews : x.userId = u
                       /\ ~ BagIn(Edge(v, u), follows)}

NumReviews(u) == Cardinality({x \in raceReviews : x.userId = u})

\* user a has a review at least as recent as every review of user b
MoreRecent(a, b) ==
  \E x \in raceReviews :
    x.userId = a /\ \A y \in raceReviews : y.userId = b => y.createdAt <= x.createdAt

\* user a ranks at or above user b
RanksAtOrAbove(a, b) ==
  \/ NumReviews(a) > NumReviews(b)
  \/ NumReviews(a) = NumReviews(b) /\ MoreRecent(a, b)

\* s is a right answer to SuggestedUsers(v, l)
RightSuggestions(s, v, l) ==
  /\ Len(s) <= l
  /\ Len(s) = Min(l, Cardinality(Eligible(v)))
  /\ \A j \in 1..Len(s) : /\ s[j].id \in Eligible(v)
                          /\ s[j].reviewCount = NumReviews(s[j].id)
  /\ \A j1, j2 \in 1..Len(s) :
       j1 < j2 => (s[j1].id # s[j2].id /\ RanksAtOrAbove(s[j1].id, s[j2].id))
  /\ \A u \in Eligible(v) :
       (\A j \in 1..Len(s) : s[j].id # u)
         => \A j \in 1..Len(s) : RanksAtOrAbove(s[j].id, u)

\* C23: in every state, for every viewer and limit, the suggested users
\* are at most limit users, each an author of a review, not the viewer and
\* not followed by the viewer, sorted by review count descending and then
\* by latest review descending, and no eligible user who outranks a
\* returned one is left out; so is the answer a suggestions request gets.
C23_SuggestionsRanked ==
  /\ \A v \in RegisteredUsers, l \in LimitInputs :
       RightSuggestions(SuggestedUsers(user, raceReviews, follows, v, l), v, l)
  /\ Done("p1", "suggestions")
       => /\ resp["p1"] = 200
          /\ RightSuggestions(obs["p1"].out.suggestions,
                              req["p1"].session, req["p1"].limit)

\* one suggestion asked, two eligible users: the one with two reviews is
\* returned although the other one's review is the most recent
C23_Witness ==
  /\ Done("p1", "suggestions") /\ resp["p1"] = 200
  /\ req["p1"].limit = 1
  /\ Cardinality(Eligible(req["p1"].session)) = 2
  /\ Len(obs["p1"].out.suggestions) = 1
  /\ obs["p1"].out.suggestions[1].reviewCount = 2
  /\ \E u \in Eligible(req["p1"].session) :
       /\ u # obs["p1"].out.suggestions[1].id
       /\ MoreRecent(u, obs["p1"].out.suggestions[1].id)

(* -------------------------------- C24 ---------------------------------- *)

\* C24: with requests served one at a time, a Follow, Unfollow, review
\* Create, Update or Delete, Like, Unlike or DeleteAccount request whose
\* session resolves to none answers 401 without having run a writing
\* statement, and the datastore is as it was.
C24_NoSessionNoWrite ==
  (/\ pc["p1"] = "done"
   /\ req["p1"].op \in MutatingOps
   /\ (req["p1"].session = NoSession
         \/ req["p1"].session \notin DOMAIN obs["p1"].pre.user))
  => /\ resp["p1"] = 401
     /\ obs["p1"].wrote = 0
     /\ DB = obs["p1"].pre

\* a DeleteAccount without a session was refused while users, edges,
\* reviews and likes exist
C24_Witness ==
  /\ pc["p1"] = "done" /\ req["p1"].op = "deleteAccount"
  /\ req["p1"].session = NoSession /\ resp["p1"] = 401
  /\ follows # EmptyBag /\ raceReviews # {} /\ reviewLikes # EmptyBag

(* -------------------------------- C25 ---------------------------------- *)

Unreferenced(i) ==
  /\ \A e \in DOMAIN follows : e.userId # i /\ e.followingId # i
  /\ \A x \in raceReviews : x.userId # i
  /\ \A e \in DOMAIN reviewLikes : e.userId # i

\* the datastore db without the user i and the rows that refer to i
WithoutUser(db, i) ==
  [user |-> [u \in DOMAIN db.user \ {i} |-> db.user[u]],
   follows |-> [e \in {x \in DOMAIN db.follows : x.userId # i /\ x.followingId # i}
                  |-> db.follows[e]],
   raceReviews |-> {x \in db.raceReviews : x.userId # i},
   reviewLikes |-> [e \in {x \in DOMAIN db.reviewLikes :
                             /\ x.userId # i
                             /\ \A r \in db.raceReviews :
                                  r.id = x.reviewId => r.userId # i}
                      |-> db.reviewLikes[e]]]

\* no other process has served a request since the start
ServedAlone(p) == \A q \in Procs \ {p} : pc[q] = "idle"

\* C26: a DeleteAccount that found its session, for another id, answers
\* 403 and deletes nothing; for the user's own id it answers 200 when the
\* user row was deleted, and then no follows row, review or like refers to
\* the user any more, and 404 when no user row was deleted; served alone
\* it removes exactly the user row and the rows that refer to the user.
C26_DeleteAccount ==
  \A p \in Procs :
    LET r == req[p] IN
    (Done(p, "deleteAccount") /\ resp[p] # 401) =>
      /\ (r.session # r.target)
           => /\ resp[p] = 403 /\ obs[p].wrote = 0
              /\ (ServedAlone(p) => DB = obs[p].pre)
      /\ (r.session = r.target)
           => /\ resp[p] \in {200, 404}
              /\ (resp[p] = 200) => (obs[p].wrote = 1 /\ r.target \notin DOMAIN user
                                     /\ Unreferenced(r.target))
              /\ (resp[p] = 404) <=> (obs[p].wrote = 0)
              /\ ServedAlone(p) => (resp[p] = 200 /\ DB = WithoutUser(obs[p].pre, r.target))

\* user 1, who had a review, a like on it and a follower, deleted the
\* account; user 2 and its counters remain
C26_Witness ==
  \E p \in Procs :
    /\ Done(p, "deleteAccount") /\ resp[p] = 200 /\ ServedAlone(p)
    /\ \E x \in obs[p].pre.raceReviews : x.userId = req[p].target
    /\ obs[p].pre.reviewLikes # EmptyBag
    /\ obs[p].pre.follows # EmptyBag
    /\ DOMAIN user # {}
    /\ follows = EmptyBag /\ raceReviews = {} /\ reviewLikes = EmptyBag

\* of two overlapping DeleteAccount requests of one user, one found no row
C26_NotFoundReached ==
  \E p \in Procs : Done(p, "deleteAccount") /\ resp[p] = 404

(* -------------------------------- C27 ---------------------------------- *)

\* C27: in every state reached by interleaved review Create and Delete,
\* Like, Follow and DeleteAccount requests, every like row refers to a
\* stored review and a stored user, every review to a stored user and
\* race, and every follows row to two stored users.
C27_ReferencesResolve ==
  /\ \A e \in DOMAIN reviewLikes :
       /\ e.userId \in DOMAIN user
       /\ \E x \in raceReviews : x.id = e.reviewId
  /\ \A x \in raceReviews : x.userId \in DOMAIN user /\ x.raceId \in RaceIds
  /\ \A e \in DOMAIN follows : e.userId \in DOMAIN user /\ e.followingId \in DOMAIN user

\* a liked review was deleted by its author and its likes went with it,
\* while a Like of the same review was refused by the foreign key
C27_Witness ==
  \E p, q \in Procs :
    /\ Done(p, "deleteReview") /\ resp[p] = 200
    /\ Done(q, "like") /\ resp[q] = 500
    /\ obs[p].pre.reviewLikes # EmptyBag
    /\ reviewLikes = EmptyBag /\ raceReviews = {}

(* -------------------------------- C28 ---------------------------------- *)

C29_CountersAfterAccountDelete ==
  (/\ pc["p1"] = "done" /\ req["p1"].op = "deleteAccount" /\ resp["p1"] = 200
   /\ CountersMatch(obs["p1"].pre.user, obs["p1"].pre.follows))
  => CountersMatch(user, follows)

(* -------------------------------- C30 ---------------------------------- *)

\* the two processes have each completed Unfollow(a, t), the two requests
\* overlapped each other and nothing else, and the pair had its edge when
\* the first of them arrived; first is the one that arrived first
RacedUnfollows(first, second) ==
  /\ first # second
  /\ Done(first, "unfollow") /\ Done(second, "unfollow")
  /\ req[first] = req[second]
  /\ obs[first].n = 1 /\ obs[second].n = 1
  /\ obs[first].alone /\ ~ obs[second].alone
  /\ obs[first].pre.edges = 1

\* C30: once two concurrent Unfollow requests for the same existing edge
\* have both finished, the edge is gone and followingCount of the actor
\* and followerCount of the target have each decreased by exactly 1.
C30_RacedUnfollowsApplyOnce ==
  \A first, second \in Procs :
    RacedUnfollows(first, second) =>
      LET a == req[first].session
          t == req[first].target
      IN /\ Rows(follows, a, t) = 0
         /\ user[a].followingCount = obs[first].pre.following - 1
         /\ user[t].followerCount = obs[first].pre.follower - 1

====
